---- MODULE Spec2Model ----
(***************************************************************************)
(* Model of vmc/seqrepo.py: translation of an assigned identifier          *)
(* (namespace, accession) to a VMC sequence digest through the alias table *)
(* of a SeqRepo store, reached through a lazily constructed module-level   *)
(* handle _sr.                                                             *)
(*                                                                         *)
(* Strings that are only compared (namespaces, aliases, sequence keys) are *)
(* TLA+ strings.  Paths are tuples of one-character strings, because       *)
(* os.path.join looks at their first and last characters.                  *)
(***************************************************************************)
EXTENDS Integers, Sequences, FiniteSets, TLC

VARIABLES
  environ,                \* os.environ: a dict, key -> value (a path)
  imported,               \* the module body (lines 13-21) has run
  importEnv,              \* history: os.environ as it was when the module body ran
  SEQREPO_ROOT_DIR,       \* module global, line 17
  SEQREPO_INSTANCE_NAME,  \* module global, line 18
  seqrepo_instance_path,  \* module global, line 19
  _sr,                    \* module global, line 21: None or the store handle
  store,                  \* the alias table of the external store, in store order
  threads,                \* the threads of the process
  pc,                     \* per thread: position in get_vmc_sequence_id / _get_seqrepo
  ir,                     \* per thread: the caller's Identifier (argument ir)
  tmp,                    \* per thread: the SeqRepo object built at line 27, before it is stored
  sr,                     \* per thread: the local _sr of get_vmc_sequence_id (line 46)
  r,                      \* per thread: the local r (lines 47, 54)
  rows,                   \* per thread: the local rows (line 51)
  out,                    \* per thread: how the call ended (value returned or exception raised)
  q1,                     \* per thread: first lookups issued by the current call
  q2,                     \* per thread: second lookups issued by the current call
  nConstructed,           \* history: SeqRepo objects constructed in this process
  writeLog,               \* history: the handles assigned to the global _sr, in order
  calls,                  \* history: calls of get_vmc_sequence_id started
  log                     \* history: the finished calls, as a set of [ir, out]

vars == <<environ, imported, importEnv, SEQREPO_ROOT_DIR, SEQREPO_INSTANCE_NAME,
          seqrepo_instance_path, _sr, store, threads, pc, ir, tmp, sr, r, rows,
          out, q1, q2, nConstructed, writeLog, calls, log>>

modvars == <<imported, importEnv, SEQREPO_ROOT_DIR, SEQREPO_INSTANCE_NAME,
             seqrepo_instance_path>>

(***************************************************************************)
(* Bounds of the model.                                                    *)
(***************************************************************************)
MaxRows == 2      \* alias rows in the store
MaxCalls == 2     \* calls of get_vmc_sequence_id in one process

(***************************************************************************)
(* Values.                                                                 *)
(***************************************************************************)
None == [none |-> TRUE]

Namespaces == {"NCBI", "VMC"}
SeqIds == {"s1", "s2"}

\* the aliases a namespace assigns: accessions of NCBI, digests of VMC
AliasesOf(ns) == IF ns = "VMC" THEN {"GS_x", "GS_y"} ELSE {"NC_1"}

Row(s, ns, a) == [seq_id |-> s, namespace |-> ns, alias |-> a]

AliasRows == {Row(s, ns, a) : s \in SeqIds, ns \in {"NCBI"}, a \in AliasesOf("NCBI")}
             \cup {Row(s, ns, a) : s \in SeqIds, ns \in {"VMC"}, a \in AliasesOf("VMC")}

Identifier(ns, a) == [namespace |-> ns, accession |-> a]

\* the identifiers callers ask for: the assigned aliases, and an unknown accession
Identifiers ==
  {Identifier(row.namespace, row.alias) : row \in AliasRows}
  \cup {Identifier("NCBI", "bogus")}

\* every alias table of at most MaxRows rows
Stores == UNION {[1..n -> AliasRows] : n \in 0..MaxRows}

\* the alias tables of the two-thread runs: empty, an accession without a digest,
\* and an accession with its digest (the docstring's example)
StoresMT ==
  {<<>>,
   <<Row("s1", "NCBI", "NC_1")>>,
   <<Row("s1", "NCBI", "NC_1"), Row("s1", "VMC", "GS_x")>>}

EnvKeys == {"SEQREPO_ROOT_DIR", "SEQREPO_INSTANCE"}

EnvValues(k) ==
  IF k = "SEQREPO_ROOT_DIR" THEN {<<"/", "r", "/">>} ELSE {<<"d", "e", "v">>}

Environs ==
  UNION {{e \in [K -> UNION {EnvValues(k) : k \in EnvKeys}] :
            \A k \in K : e[k] \in EnvValues(k)} : K \in SUBSET EnvKeys}

DefaultRootDir ==
  <<"/", "u", "s", "r", "/", "l", "o", "c", "a", "l", "/",
    "s", "h", "a", "r", "e", "/", "s", "e", "q", "r", "e", "p", "o">>

DefaultInstanceName == <<"m", "a", "s", "t", "e", "r">>

(***************************************************************************)
(* Library functions the module uses.                                      *)
(***************************************************************************)
\* os.environ.get(key, default)
get(env, key, default) == IF key \in DOMAIN env THEN env[key] ELSE default

\* os.path.join(a, b) of posixpath
join(a, b) ==
  IF b # <<>> /\ b[1] = "/" THEN b
  ELSE IF a = <<>> \/ a[Len(a)] = "/" THEN a \o b
  ELSE a \o <<"/">> \o b

\* lines 17-19 as one expression of the environment
InstancePath(env) ==
  join(get(env, "SEQREPO_ROOT_DIR", DefaultRootDir),
       get(env, "SEQREPO_INSTANCE", DefaultInstanceName))

\* biocommons.seqrepo.SeqRepo(path): the k-th object constructed in the process
SeqRepo(path, k) == [id |-> k, path |-> path]

\* _sr.aliases.find_aliases(**kwargs): the rows that agree with every keyword,
\* in store order
find_aliases(table, kwargs) ==
  SelectSeq(table, LAMBDA row : \A k \in DOMAIN kwargs : row[k] = kwargs[k])

\* cursor.fetchone()
fetchone(cursor) == IF cursor = <<>> THEN None ELSE Head(cursor)

\* cursor.fetchall()
fetchall(cursor) == cursor

\* len(row): the number of columns of a row
len(row) == Cardinality(DOMAIN row)

(***************************************************************************)
(* The code of get_vmc_sequence_id, expression by expression.              *)
(***************************************************************************)
\* line 47: the keywords of the first lookup
FirstQuery(i) == [namespace |-> i.namespace, alias |-> i.accession]

\* line 51: the keywords of the second lookup
SecondQuery(row) == [seq_id |-> row.seq_id, namespace |-> "VMC"]

\* a KeyError that carries the accession alone
NotFoundAccession(i) == [kind |-> "KeyError", arg |-> [accession |-> i.accession]]

\* line 49: raise KeyError(ir)
NotFound(i) == [kind |-> "KeyError", arg |-> i]

\* the condition on the second lookup's result
NoDigestRows(row, rs) == Len(rs) = 0

\* line 52: the condition under which the RuntimeError is raised
NoDigest(row, rs) == len(row) = 0

\* line 53: raise RuntimeError("No VMC digest for {ir}")
Inconsistent(i) == [kind |-> "RuntimeError", arg |-> i]

\* line 54: rows[0], an IndexError on an empty list
IndexError == [kind |-> "IndexError"]

\* the last row instead of the first
LastRow(rs) == rs[Len(rs)]

FirstRow(rs) == rs[1]

\* line 56: "{r[namespace]}:{r[alias]}".format(r=r)
Format(row) == [kind |-> "return", value |-> row.namespace \o ":" \o row.alias]

(***************************************************************************)
(* Initial states: the process has started, the module is not imported     *)
(* yet.  The store and the environment are whatever the outside world set  *)
(* up.                                                                     *)
(***************************************************************************)
InitWith(T, S) ==
  /\ threads = T
  /\ environ \in Environs
  /\ store \in S
  /\ imported = FALSE
  /\ importEnv = <<>>
  /\ SEQREPO_ROOT_DIR = <<>>
  /\ SEQREPO_INSTANCE_NAME = <<>>
  /\ seqrepo_instance_path = <<>>
  /\ _sr = None
  /\ pc = [t \in T |-> "idle"]
  /\ ir = [t \in T |-> None]
  /\ tmp = [t \in T |-> None]
  /\ sr = [t \in T |-> None]
  /\ r = [t \in T |-> None]
  /\ rows = [t \in T |-> <<>>]
  /\ out = [t \in T |-> None]
  /\ q1 = [t \in T |-> 0]
  /\ q2 = [t \in T |-> 0]
  /\ nConstructed = 0
  /\ writeLog = <<>>
  /\ calls = 0
  /\ log = {}

\* one thread: the single-threaded use the module is written for
Init == InitWith({1}, Stores)

\* two threads that may both call get_vmc_sequence_id
InitMT == InitWith({1, 2}, StoresMT)

(***************************************************************************)
(* The environment of the process.  A thread that is not inside            *)
(* get_vmc_sequence_id may change os.environ.                              *)
(***************************************************************************)
Setenv(k, v) ==
  /\ \E t \in threads : pc[t] = "idle"
  /\ get(environ, k, <<>>) # v \/ k \notin DOMAIN environ
  /\ environ' = [x \in DOMAIN environ \cup {k} |-> IF x = k THEN v ELSE environ[x]]
  /\ UNCHANGED <<modvars, _sr, store, threads, pc, ir, tmp, sr, r, rows, out,
                 q1, q2, nConstructed, writeLog, calls, log>>

Unsetenv(k) ==
  /\ \E t \in threads : pc[t] = "idle"
  /\ k \in DOMAIN environ
  /\ environ' = [x \in DOMAIN environ \ {k} |-> environ[x]]
  /\ UNCHANGED <<modvars, _sr, store, threads, pc, ir, tmp, sr, r, rows, out,
                 q1, q2, nConstructed, writeLog, calls, log>>

(***************************************************************************)
(* Lines 13-21: the module body, run once by the import.                   *)
(***************************************************************************)
ImportModule ==
  /\ ~imported
  /\ imported' = TRUE
  /\ importEnv' = environ
  /\ SEQREPO_ROOT_DIR' = get(environ, "SEQREPO_ROOT_DIR", DefaultRootDir)
  /\ SEQREPO_INSTANCE_NAME' = get(environ, "SEQREPO_INSTANCE", DefaultInstanceName)
  /\ seqrepo_instance_path' = join(SEQREPO_ROOT_DIR', SEQREPO_INSTANCE_NAME')
  /\ _sr' = None
  /\ UNCHANGED <<environ, store, threads, pc, ir, tmp, sr, r, rows, out,
                 q1, q2, nConstructed, writeLog, calls, log>>

(***************************************************************************)
(* get_vmc_sequence_id(ir), called by thread t with identifier i.          *)
(***************************************************************************)
Call(t, i) ==
  /\ imported
  /\ pc[t] = "idle"
  /\ calls < MaxCalls
  /\ calls' = calls + 1
  /\ ir' = [ir EXCEPT ![t] = i]
  /\ pc' = [pc EXCEPT ![t] = "test"]
  /\ UNCHANGED <<environ, modvars, _sr, store, threads, tmp, sr, r, rows, out,
                 q1, q2, nConstructed, writeLog, log>>

\* a test that always constructs
GetSeqrepoTestAlways(t) ==
  /\ pc[t] = "test"
  /\ pc' = [pc EXCEPT ![t] = "construct"]
  /\ UNCHANGED <<environ, modvars, _sr, store, threads, ir, tmp, sr, r, rows, out,
                 q1, q2, nConstructed, writeLog, calls, log>>

\* line 26: if _sr is None
GetSeqrepoTest(t) ==
  /\ pc[t] = "test"
  /\ pc' = [pc EXCEPT ![t] = IF _sr = None THEN "construct" ELSE "return_sr"]
  /\ UNCHANGED <<environ, modvars, _sr, store, threads, ir, tmp, sr, r, rows, out,
                 q1, q2, nConstructed, writeLog, calls, log>>

\* a construction that reads the environment when it runs
GetSeqrepoConstructFromEnv(t) ==
  /\ pc[t] = "construct"
  /\ nConstructed' = nConstructed + 1
  /\ tmp' = [tmp EXCEPT ![t] = SeqRepo(InstancePath(environ), nConstructed')]
  /\ pc' = [pc EXCEPT ![t] = "assign"]
  /\ UNCHANGED <<environ, modvars, _sr, store, threads, ir, sr, r, rows, out,
                 q1, q2, writeLog, calls, log>>

\* line 27, right-hand side: biocommons.seqrepo.SeqRepo(seqrepo_instance_path)
GetSeqrepoConstruct(t) ==
  /\ pc[t] = "construct"
  /\ nConstructed' = nConstructed + 1
  /\ tmp' = [tmp EXCEPT ![t] = SeqRepo(seqrepo_instance_path, nConstructed')]
  /\ pc' = [pc EXCEPT ![t] = "assign"]
  /\ UNCHANGED <<environ, modvars, _sr, store, threads, ir, sr, r, rows, out,
                 q1, q2, writeLog, calls, log>>

\* an assignment that keeps a handle another thread has stored meanwhile
GetSeqrepoAssignIfNone(t) ==
  /\ pc[t] = "assign"
  /\ _sr' = IF _sr = None THEN tmp[t] ELSE _sr
  /\ writeLog' = Append(writeLog, tmp[t])
  /\ pc' = [pc EXCEPT ![t] = "return_sr"]
  /\ UNCHANGED <<environ, modvars, store, threads, ir, tmp, sr, r, rows, out,
                 q1, q2, nConstructed, calls, log>>

\* line 27, the assignment to the global _sr
GetSeqrepoAssign(t) ==
  /\ pc[t] = "assign"
  /\ _sr' = tmp[t]
  /\ writeLog' = Append(writeLog, tmp[t])
  /\ pc' = [pc EXCEPT ![t] = "return_sr"]
  /\ UNCHANGED <<environ, modvars, store, threads, ir, tmp, sr, r, rows, out,
                 q1, q2, nConstructed, calls, log>>

\* line 28 (return _sr, a read of the global) and the assignment of line 46
GetSeqrepoReturn(t) ==
  /\ pc[t] = "return_sr"
  /\ sr' = [sr EXCEPT ![t] = _sr]
  /\ pc' = [pc EXCEPT ![t] = "lookup1"]
  /\ UNCHANGED <<environ, modvars, _sr, store, threads, ir, tmp, r, rows, out,
                 q1, q2, nConstructed, writeLog, calls, log>>

\* a first lookup that asks again when it finds nothing
FirstLookupRetry(t) ==
  /\ pc[t] = "lookup1"
  /\ sr[t] # None
  /\ r' = [r EXCEPT ![t] = fetchone(find_aliases(store, FirstQuery(ir[t])))]
  /\ IF r'[t] = None
       THEN /\ q1' = [q1 EXCEPT ![t] = @ + 2]
            /\ out' = [out EXCEPT ![t] = NotFound(ir[t])]
            /\ pc' = [pc EXCEPT ![t] = "done"]
       ELSE /\ q1' = [q1 EXCEPT ![t] = @ + 1]
            /\ out' = out
            /\ pc' = [pc EXCEPT ![t] = "lookup2"]
  /\ UNCHANGED <<environ, modvars, _sr, store, threads, ir, tmp, sr, rows,
                 q2, nConstructed, writeLog, calls, log>>

\* lines 47-49
FirstLookup(t) ==
  /\ pc[t] = "lookup1"
  /\ sr[t] # None
  /\ q1' = [q1 EXCEPT ![t] = @ + 1]
  /\ r' = [r EXCEPT ![t] = fetchone(find_aliases(store, FirstQuery(ir[t])))]
  /\ IF r'[t] = None
       THEN /\ out' = [out EXCEPT ![t] = NotFound(ir[t])]
            /\ pc' = [pc EXCEPT ![t] = "done"]
       ELSE /\ out' = out
            /\ pc' = [pc EXCEPT ![t] = "lookup2"]
  /\ UNCHANGED <<environ, modvars, _sr, store, threads, ir, tmp, sr, rows,
                 q2, nConstructed, writeLog, calls, log>>

\* a second lookup that takes the rows it finds out of the table
SecondLookupConsuming(t) ==
  /\ pc[t] = "lookup2"
  /\ q2' = [q2 EXCEPT ![t] = @ + 1]
  /\ rows' = [rows EXCEPT ![t] = fetchall(find_aliases(store, SecondQuery(r[t])))]
  /\ store' = SelectSeq(store, LAMBDA row : row.seq_id # r[t].seq_id \/ row.namespace # "VMC")
  /\ pc' = [pc EXCEPT ![t] = "check"]
  /\ UNCHANGED <<environ, modvars, _sr, threads, ir, tmp, sr, r, out,
                 q1, nConstructed, writeLog, calls, log>>

\* line 51
SecondLookup(t) ==
  /\ pc[t] = "lookup2"
  /\ q2' = [q2 EXCEPT ![t] = @ + 1]
  /\ rows' = [rows EXCEPT ![t] = fetchall(find_aliases(store, SecondQuery(r[t])))]
  /\ pc' = [pc EXCEPT ![t] = "check"]
  /\ UNCHANGED <<environ, modvars, _sr, store, threads, ir, tmp, sr, r, out,
                 q1, nConstructed, writeLog, calls, log>>

\* an end that takes any of the rows, as a store without an order would give
FinishAnyRow(t) ==
  /\ pc[t] = "check"
  /\ IF rows[t] = <<>>
       THEN /\ out' = [out EXCEPT ![t] = IndexError]
            /\ r' = r
       ELSE \E k \in 1..Len(rows[t]) :
              /\ r' = [r EXCEPT ![t] = rows[t][k]]
              /\ out' = [out EXCEPT ![t] = Format(r'[t])]
  /\ pc' = [pc EXCEPT ![t] = "done"]
  /\ UNCHANGED <<environ, modvars, _sr, store, threads, ir, tmp, sr, rows,
                 q1, q2, nConstructed, writeLog, calls, log>>

\* lines 52-56
Finish(t) ==
  /\ pc[t] = "check"
  /\ IF NoDigest(r[t], rows[t])
       THEN /\ out' = [out EXCEPT ![t] = Inconsistent(ir[t])]
            /\ r' = r
       ELSE IF rows[t] = <<>>
         THEN /\ out' = [out EXCEPT ![t] = IndexError]
              /\ r' = r
         ELSE /\ r' = [r EXCEPT ![t] = FirstRow(rows[t])]
              /\ out' = [out EXCEPT ![t] = Format(r'[t])]
  /\ pc' = [pc EXCEPT ![t] = "done"]
  /\ UNCHANGED <<environ, modvars, _sr, store, threads, ir, tmp, sr, rows,
                 q1, q2, nConstructed, writeLog, calls, log>>

\* the call is over: the caller has the value or the exception
Return(t) ==
  /\ pc[t] = "done"
  /\ log' = log \cup {[ir |-> ir[t], out |-> out[t]]}
  /\ pc' = [pc EXCEPT ![t] = "idle"]
  /\ ir' = [ir EXCEPT ![t] = None]
  /\ tmp' = [tmp EXCEPT ![t] = None]
  /\ sr' = [sr EXCEPT ![t] = None]
  /\ r' = [r EXCEPT ![t] = None]
  /\ rows' = [rows EXCEPT ![t] = <<>>]
  /\ out' = [out EXCEPT ![t] = None]
  /\ q1' = [q1 EXCEPT ![t] = 0]
  /\ q2' = [q2 EXCEPT ![t] = 0]
  /\ UNCHANGED <<environ, modvars, _sr, store, threads, nConstructed, writeLog, calls>>

Next ==
  \/ ImportModule
  \/ \E k \in EnvKeys : \E v \in EnvValues(k) : Setenv(k, v)
  \/ \E k \in EnvKeys : Unsetenv(k)
  \/ \E t \in threads : \E i \in Identifiers : Call(t, i)
  \/ \E t \in threads : GetSeqrepoTest(t)
  \/ \E t \in threads : GetSeqrepoConstruct(t)
  \/ \E t \in threads : GetSeqrepoAssign(t)
  \/ \E t \in threads : GetSeqrepoReturn(t)
  \/ \E t \in threads : FirstLookup(t)
  \/ \E t \in threads : SecondLookup(t)
  \/ \E t \in threads : Finish(t)
  \/ \E t \in threads : Return(t)

Spec == Init /\ [][Next]_vars

SpecMT == InitMT /\ [][Next]_vars

TypeOK ==
  /\ environ \in Environs
  /\ store \in Stores \cup StoresMT
  /\ \A t \in threads : pc[t] \in {"idle", "test", "construct", "assign", "return_sr",
                                   "lookup1", "lookup2", "check", "done"}
  /\ calls <= MaxCalls

(***************************************************************************)
(* What the alias table holds for an identifier, stated on the table       *)
(* itself: the positions of the rows a lookup is about.                    *)
(***************************************************************************)
Min(S) == CHOOSE x \in S : \A y \in S : x <= y

AliasPositions(i) ==
  {k \in 1..Len(store) : store[k].namespace = i.namespace /\ store[k].alias = i.accession}

SequenceKey(i) == store[Min(AliasPositions(i))].seq_id

DigestPositions(key) ==
  {k \in 1..Len(store) : store[k].seq_id = key /\ store[k].namespace = "VMC"}

InLookups(t) == pc[t] \in {"lookup1", "lookup2", "check", "done"}

Ended(t) == [ir |-> ir[t], out |-> out[t]]

\* the finished calls and the calls that have ended and not yet returned
Outcomes == log \cup {Ended(t) : t \in {u \in threads : pc[u] = "done"}}

\* C1: an identifier that no alias row matches ends in KeyError carrying that
\* identifier, and in nothing else
C1_NotFound ==
  \A e \in Outcomes :
    AliasPositions(e.ir) = {} =>
      e.out = [kind |-> "KeyError",
               arg |-> [namespace |-> e.ir.namespace, accession |-> e.ir.accession]]

C1_Witness ==
  \E t \in threads :
    /\ pc[t] = "done"
    /\ store # <<>>
    /\ AliasPositions(ir[t]) = {}
    /\ out[t].kind = "KeyError"

\* C2: an identifier with a matching row whose sequence key has a VMC alias
\* resolves to "VMC:" and the alias of the first VMC row of that key, where the
\* key is that of the first row matching the identifier
C2_Digest ==
  \A e \in Outcomes :
    (AliasPositions(e.ir) # {} /\ DigestPositions(SequenceKey(e.ir)) # {}) =>
      e.out = [kind |-> "return",
               value |-> "VMC:" \o store[Min(DigestPositions(SequenceKey(e.ir)))].alias]

C2_Witness ==
  \E t \in threads :
    /\ pc[t] = "done"
    /\ AliasPositions(ir[t]) # {}
    /\ Cardinality(DigestPositions(SequenceKey(ir[t]))) > 1
    /\ out[t].kind = "return"

\* C3: with one thread, at most one handle is ever constructed, a handle once set
\* is never cleared or replaced, every call does its lookups with the global
\* handle, and the handle exists once a call has finished, failed or not
C3_HandleOnce ==
  [][/\ nConstructed' <= 1
     /\ (_sr # None => _sr' = _sr)
     /\ (log' # {} => _sr' # None /\ nConstructed' = 1)
     /\ \A t \in threads : InLookups(t)' => (sr'[t] = _sr' /\ _sr' # None)]_vars

C3_Witness ==
  \E t \in threads :
    /\ pc[t] = "lookup1"
    /\ tmp[t] = None
    /\ sr[t] = _sr
    /\ nConstructed = 1
    /\ \E e \in log : e.out.kind = "KeyError"

\* C4: a call whose second lookup returns no rows ends in the RuntimeError
C4_Inconsistent ==
  \A t \in threads :
    (pc[t] = "done" /\ q2[t] = 1 /\ rows[t] = <<>>) =>
      out[t] = [kind |-> "RuntimeError", arg |-> ir[t]]

\* C5: no step changes the alias table; a step of a call changes neither the
\* environment nor the module's configuration, and leaves the caller's
\* identifier as it was passed
C5_Frame ==
  [][/\ store' = store
     /\ (pc' # pc => (environ' = environ /\ modvars' = modvars))
     /\ \A t \in threads : (pc[t] # "idle" /\ pc'[t] # "idle") => ir'[t] = ir[t]]_vars

C5_Witness ==
  /\ store # <<>>
  /\ \E e \in log : e.out.kind = "return"
  /\ \E e \in log : e.out.kind # "return"

\* C6: no call ever ends in the RuntimeError, also not one whose second lookup
\* returned no rows; the row the guard measures has at least one column
C6_NoRuntimeError ==
  /\ \A e \in Outcomes : e.out.kind # "RuntimeError"
  /\ \A t \in threads : pc[t] = "check" => len(r[t]) >= 1

C6_Witness ==
  \E t \in threads :
    /\ pc[t] = "done"
    /\ q2[t] = 1
    /\ rows[t] = <<>>
    /\ out[t] = IndexError

\* what a call for identifier i ends in, read off the alias table
Expected(i) ==
  IF AliasPositions(i) = {} THEN [kind |-> "KeyError", arg |-> i]
  ELSE IF DigestPositions(SequenceKey(i)) = {} THEN [kind |-> "IndexError"]
  ELSE [kind |-> "return",
        value |-> "VMC:" \o store[Min(DigestPositions(SequenceKey(i)))].alias]

\* C7: with two threads no more handles are constructed than there are threads,
\* the global handle is the one assigned last, and each thread does its lookups
\* with a constructed handle and ends as the alias table says
C7_LastWriteWins ==
  /\ nConstructed <= Cardinality(threads)
  /\ _sr = (IF writeLog = <<>> THEN None ELSE writeLog[Len(writeLog)])
  /\ \A t \in threads :
       InLookups(t) => /\ sr[t] # None
                       /\ sr[t].id \in 1..nConstructed
                       /\ sr[t].path = seqrepo_instance_path
  /\ \A t \in threads : pc[t] = "done" => out[t] = Expected(ir[t])

\* both threads constructed a handle, one of the two is not the global one, and
\* both calls have ended
C7_Witness ==
  /\ Cardinality(threads) = 2
  /\ nConstructed = 2
  /\ \A t \in threads : pc[t] = "done" /\ tmp[t] # None
  /\ \E t \in threads : tmp[t] # _sr

\* C8: a call issues each lookup at most once, the first only with a handle, the
\* second only after the first returned a row; a call that ends in KeyError has
\* issued no second lookup and holds no row
C8_Order ==
  \A t \in threads :
    /\ q1[t] <= 1
    /\ q2[t] <= 1
    /\ (q1[t] = 1 => sr[t] # None)
    /\ (q2[t] = 1 => (q1[t] = 1 /\ r[t] # None))
    /\ (pc[t] = "done" => q1[t] = 1)
    /\ (pc[t] = "done" /\ out[t] = [kind |-> "KeyError", arg |-> ir[t]])
         => (q2[t] = 0 /\ rows[t] = <<>> /\ r[t] = None)

C8_Witness ==
  /\ \E e \in log : e.out.kind = "KeyError"
  /\ \E t \in threads :
       pc[t] = "done" /\ out[t].kind = "return" /\ q1[t] = 1 /\ q2[t] = 1

\* C9 as claimed: the path a handle is constructed from is the one the
\* environment gives at the call that constructs it
C9_ReadAtFirstUse ==
  \A t \in threads : pc[t] = "assign" => tmp[t].path = InstancePath(environ)

\* C9 as amended: the configuration is read once, when the module is imported;
\* the path of every handle is the one the environment gave at the import
C9_ReadAtImport ==
  /\ imported => seqrepo_instance_path = InstancePath(importEnv)
  /\ _sr # None => _sr.path = InstancePath(importEnv)
  /\ \A t \in threads :
       /\ tmp[t] # None => tmp[t].path = InstancePath(importEnv)
       /\ sr[t] # None => sr[t].path = InstancePath(importEnv)

C9_Witness ==
  \E t \in threads :
    /\ pc[t] = "assign"
    /\ nConstructed = 1
    /\ environ # importEnv
    /\ tmp[t].path # InstancePath(environ)

\* C10: two calls with the same identifier end the same way, whether or not the
\* handle existed and whatever was called before
C10_Deterministic ==
  \A e1, e2 \in Outcomes : e1.ir = e2.ir => e1.out = e2.out

C10_Witness ==
  \E t \in threads :
    /\ pc[t] = "done"
    /\ tmp[t] = None
    /\ Ended(t) \in log
    /\ out[t].kind = "return"
    /\ Cardinality(DigestPositions(SequenceKey(ir[t]))) > 1

====
